---- MODULE Spec2Model ----
(***************************************************************************)
(* Multipart transfer of one object between two S3-compatible stores, in   *)
(* the repository's three variants:                                        *)
(*   "workflow"  src/src/index.ts      SyncWorkflow.run (durable steps,    *)
(*                                     part uploads dispatched at once)    *)
(*   "stream"    src/unnamed/part_000  uploadLargeFile over a stream,      *)
(*                                     parts uploaded one at a time        *)
(*   "blob"      src/unnamed/part_001  uploadLargeFile over a Blob, parts  *)
(*                                     are slices uploaded one at a time   *)
(* Sizes are scaled: one model byte stands for a block of the object and   *)
(* the source byte at offset i (1-based) has the value i, so that a body   *)
(* identifies the source range it was copied from.  A zero is a byte of    *)
(* the freshly allocated buffer.                                           *)
(***************************************************************************)
EXTENDS Integers, Sequences, FiniteSets

\* ------------------------------------------------------------- bounds
\* largest source object
MaxSize == 4
\* largest chunkSize argument of the blob variant
MaxChunk == 3
\* restarts (re-entries of run()) of one workflow execution
MaxRestarts == 1
\* executions of a step's unit of work the retry policy allows (scaled)
maxAttempts == 2
\* capacity of the reused buffer (scaled from 20 MiB)
bufferSize == 2
\* largest batch of messages delivered to the queue handler
MaxBatch == 2

Variants == {"workflow", "stream", "blob"}
ETags == {"e1", "e2"}
PartNumbers == 1..(MaxSize + 1)

Min(a, b) == IF a < b THEN a ELSE b

\* ------------------------------------------------------------- state
VARIABLES
    variant,      \* which of the three programs runs
    size,         \* length of the source object
    chunkSize,    \* blob variant: the chunkSize argument
    pc,           \* position of run() / uploadLargeFile
    uploadId,     \* "none" before initiate, "id", or "undefined"
    buffer,       \* the Uint8Array of bufferSize bytes
    bufferOffset,
    partNumber,
    value,        \* the chunk the last reader.read() returned
    valueOffset,
    srcPos,       \* bytes the stream has delivered so far
    promises,     \* workflow: the dispatched uploadStep calls, [pn, len]
    parts,        \* the UploadPart list
    error,        \* the error caught by the catch block
    thrown,       \* the error the transfer raised to its caller
    stepStatus,   \* durable record of each named step
    stepAttempts,
    stepValue,
    restarts,
    \* history of the requests the destination has seen
    initiated,    \* an initiate response carried an upload identifier
    completeIssued,
    completeOk,
    completeBody,
    abortReqs,
    abortFailed,
    putBodies,    \* part number -> the bodies PUT for it
    results,      \* part number -> entity tag of its successful upload
    settleOrder,  \* workflow: part numbers in the order their steps settled
    reqNoId,      \* a part, complete or abort request carried no upload id
    emitted,      \* parts the buffer-fill planner emitted since (re)start
    flushed,      \* the planner has passed the residual flush
    \* queue variants: the batch handed to queue(batch, env)
    delivered,    \* messages of the batch that are not settled yet
    acked         \* messages of the batch the queue has acknowledged

vars == <<variant, size, chunkSize, pc, uploadId, buffer, bufferOffset,
          partNumber, value, valueOffset, srcPos, promises, parts, error,
          thrown, stepStatus, stepAttempts, stepValue, restarts, initiated,
          completeIssued, completeOk, completeBody, abortReqs, abortFailed,
          putBodies, results, settleOrder, reqNoId, emitted, flushed,
          delivered, acked>>

\* ------------------------------------------------------------ helpers
\* the source object's byte at 1-based offset i
Src(i) == i

\* bytes of the source at 0-based offsets [start, end)
SourceRange(start, end) == [i \in 1..(end - start) |-> Src(start + i)]

\* Blob.slice(start, end) of the downloaded blob
BlobSlice(start, end) == SourceRange(Min(start, size), Min(end, size))

\* TypedArray.set(src, offset) on buf
BufferSet(buf, src, offset) ==
    [i \in 1..Len(buf) |->
        IF offset < i /\ i <= offset + Len(src) THEN src[i - offset] ELSE buf[i]]

\* TypedArray.subarray(from, to): a view, read when it is used
Subarray(buf, from, to) == SubSeq(buf, from + 1, to)

NewBuffer == [i \in 1..bufferSize |-> 0]

\* Math.floor(a / b): the chunk count that drops a short last chunk
MathCeilFloor(a, b) == a \div b
\* Math.ceil(a / b)
MathCeil(a, b) == IF a % b = 0 THEN a \div b ELSE (a \div b) + 1

TotalChunks == MathCeil(size, chunkSize)

\* the names of the durable steps
InitName == <<"Init upload", 0>>
CompleteName == <<"Complete upload", 0>>
AbortName == <<"Abort upload", 0>>
\* a part step name without the part number: one name for every part
StepNameShared(pn) == <<"Upload file parts", 0>>
\* `Upload file parts ${partNumber}`
StepName(pn) == <<"Upload file parts", pn>>
StepNames == {InitName, CompleteName, AbortName} \cup {StepName(k) : k \in PartNumbers}

\* the value pushed after partNumber++ instead of before it
PartResultNext(etag, pn) == [ETag |-> etag, PartNumber |-> pn + 1]
\* the value an upload returns or pushes on success
PartResult(etag, pn) == [ETag |-> etag, PartNumber |-> pn]
NoResult == [ETag |-> "", PartNumber |-> 0]

\* the <Part> entries of the CompleteMultipartUpload body, in document order
CompleteXml(ps) == [i \in 1..Len(ps) |-> <<ps[i].PartNumber, ps[i].ETag>>]

\* the flush test of the inner loop reused after the loop
HasResidualFull(off) == off = bufferSize
\* the post-loop test for residual bytes
HasResidual(off) == off > 0

\* the copy length without the Math.min against the space left
BytesToCopyAll(spaceLeft, remaining) == remaining
\* the copy length of one inner-loop iteration
BytesToCopy(spaceLeft, remaining) == Min(spaceLeft, remaining)

\* a part counter advanced twice per uploaded part
NextPartSkip(pn) == pn + 2
\* partNumber++
NextPart(pn) == pn + 1

\* a request that carries uploadId in its URL
NoIdSeen == reqNoId \/ uploadId # "id"

\* a retry policy that allows twice the executions
RetryLimitDoubled == 2 * maxAttempts
\* retries: { limit: 5, ... } of every step.do call (scaled)
RetryLimit == maxAttempts

\* step.do: one execution of the unit failed / succeeded with value v
StepFailed(name) ==
    /\ stepAttempts' = [stepAttempts EXCEPT ![name] = @ + 1]
    /\ stepStatus' = [stepStatus EXCEPT ![name] =
                        IF stepAttempts[name] + 1 >= RetryLimit THEN "failed" ELSE "none"]
    /\ UNCHANGED stepValue
StepDone(name, v) ==
    /\ stepAttempts' = [stepAttempts EXCEPT ![name] = @ + 1]
    /\ stepStatus' = [stepStatus EXCEPT ![name] = "done"]
    /\ stepValue' = [stepValue EXCEPT ![name] = v]
Exhausted(name) == stepAttempts[name] + 1 >= RetryLimit

\* ------------------------------------------------------------- Init
Init ==
    /\ variant \in Variants
    /\ size \in 0..MaxSize
    /\ chunkSize \in (IF variant = "blob" THEN 1..MaxChunk ELSE {1})
    /\ pc = "download"
    /\ uploadId = "none"
    /\ buffer = NewBuffer
    /\ bufferOffset = 0
    /\ partNumber = 1
    /\ value = <<>>
    /\ valueOffset = 0
    /\ srcPos = 0
    /\ promises = <<>>
    /\ parts = <<>>
    /\ error = "none"
    /\ thrown = "none"
    /\ stepStatus = [n \in StepNames |-> "none"]
    /\ stepAttempts = [n \in StepNames |-> 0]
    /\ stepValue = [n \in StepNames |-> IF n[1] = "Upload file parts" THEN NoResult ELSE ""]
    /\ restarts = 0
    /\ initiated = FALSE
    /\ completeIssued = FALSE
    /\ completeOk = FALSE
    /\ completeBody = <<>>
    /\ abortReqs = 0
    /\ abortFailed = FALSE
    /\ putBodies = [k \in PartNumbers |-> {}]
    /\ results = [k \in PartNumbers |-> ""]
    /\ settleOrder = <<>>
    /\ reqNoId = FALSE
    /\ emitted = <<>>
    /\ flushed = FALSE
    /\ delivered \in (IF variant = "workflow" THEN {{}}
                      ELSE {1..n : n \in 1..MaxBatch})
    /\ acked = {}

memVars == <<buffer, bufferOffset, partNumber, value, valueOffset, srcPos,
             promises, parts, emitted, flushed>>
stepVars == <<stepStatus, stepAttempts, stepValue>>
histVars == <<initiated, completeIssued, completeOk, completeBody, abortReqs,
              abortFailed, putBodies, results, settleOrder, reqNoId>>
constVars == <<variant, size, chunkSize>>
queueVars == <<delivered, acked>>

\* ---------------------------------------------------------- download
\* downloadLargeFile: GET of the source object
Download ==
    /\ pc = "download"
    /\ \E ok \in BOOLEAN :
         IF ok THEN /\ pc' = "init"
                    /\ thrown' = thrown
               ELSE /\ pc' = "failed"
                    /\ thrown' = "download"
    /\ UNCHANGED <<constVars, queueVars, uploadId, memVars, error, stepVars, restarts, histVars>>

\* ---------------------------------------------------------- initiate
InitOutcomes == {"ok_id", "ok_noid", "notok", "throw"}

\* an initiate failure thrown inside the try block: the catch would abort
OnInitFailureCaught == "abort"
\* initiate runs before the try block: its failure leaves the function
OnInitFailure == "failed"

\* workflow: step.do('Init upload')
InitStep ==
    /\ pc = "init"
    /\ variant = "workflow"
    /\ IF stepStatus[InitName] = "done"
       THEN /\ uploadId' = stepValue[InitName]
            /\ pc' = "read"
            /\ UNCHANGED <<stepVars, initiated, thrown>>
       ELSE \E out \in InitOutcomes :
              CASE out = "ok_id" ->
                     /\ StepDone(InitName, "id")
                     /\ uploadId' = "id"
                     /\ initiated' = TRUE
                     /\ pc' = "read"
                     /\ thrown' = thrown
                [] out = "ok_noid" ->
                     /\ StepDone(InitName, "undefined")
                     /\ uploadId' = "undefined"
                     /\ pc' = "read"
                     /\ UNCHANGED <<initiated, thrown>>
                [] OTHER ->
                     /\ StepFailed(InitName)
                     /\ pc' = IF Exhausted(InitName) THEN OnInitFailure ELSE "init"
                     /\ thrown' = IF Exhausted(InitName) THEN "init" ELSE thrown
                     /\ UNCHANGED <<uploadId, initiated>>
    /\ UNCHANGED <<constVars, queueVars, memVars, error, restarts, completeIssued, completeOk,
                   completeBody, abortReqs, abortFailed, putBodies, results,
                   settleOrder, reqNoId>>

\* stream and blob: the initiate request of uploadLargeFile
Initiate ==
    /\ pc = "init"
    /\ variant # "workflow"
    /\ \E out \in InitOutcomes :
         IF out = "ok_id"
         THEN /\ uploadId' = "id"
              /\ initiated' = TRUE
              /\ pc' = IF variant = "stream" THEN "read" ELSE "loop"
              /\ thrown' = thrown
         ELSE /\ pc' = OnInitFailure
              /\ thrown' = "init"
              /\ UNCHANGED <<uploadId, initiated>>
    /\ UNCHANGED <<constVars, queueVars, memVars, error, stepVars, restarts, completeIssued,
                   completeOk, completeBody, abortReqs, abortFailed, putBodies,
                   results, settleOrder, reqNoId>>

\* ------------------------------------------------- buffer-fill planner
\* the test of the inner while loop, after an iteration
AfterCopy(vo) == IF vo < Len(value) THEN "copy" ELSE "read"

\* value and valueOffset are scoped to one iteration of the read loop
ValueAfter(vo) == IF vo < Len(value) THEN value ELSE <<>>
OffsetAfter(vo) == IF vo < Len(value) THEN vo ELSE 0

\* workflow and stream: const { done, value } = await reader.read()
Read ==
    /\ pc = "read"
    /\ \/ /\ srcPos = size
          /\ pc' = "flush"
          /\ UNCHANGED <<value, valueOffset, srcPos, error>>
       \/ \E n \in 1..(size - srcPos) :
            /\ value' = SourceRange(srcPos, srcPos + n)
            /\ valueOffset' = 0
            /\ srcPos' = srcPos + n
            /\ pc' = "copy"
            /\ error' = error
       \/ /\ error' = "read"
          /\ pc' = "abort"
          /\ UNCHANGED <<value, valueOffset, srcPos>>
    /\ UNCHANGED <<constVars, queueVars, uploadId, buffer, bufferOffset, partNumber, promises,
                   parts, emitted, flushed, thrown, stepVars, restarts, histVars>>

\* workflow and stream: one iteration of while (valueOffset < value.length)
CopyStep ==
    /\ pc = "copy"
    /\ LET spaceLeft == bufferSize - bufferOffset
           bytesToCopy == BytesToCopy(spaceLeft, Len(value) - valueOffset)
           off == bufferOffset + bytesToCopy
           vo == valueOffset + bytesToCopy
       IN /\ buffer' = BufferSet(buffer, SubSeq(value, valueOffset + 1, vo), bufferOffset)
          /\ IF off = bufferSize
             THEN /\ emitted' = Append(emitted, [pn |-> partNumber, len |-> bufferSize])
                  /\ IF variant = "workflow"
                     THEN /\ promises' = Append(promises, [pn |-> partNumber, len |-> bufferSize])
                          /\ partNumber' = NextPart(partNumber)
                          /\ bufferOffset' = 0
                          /\ pc' = AfterCopy(vo)
                          /\ value' = ValueAfter(vo)
                          /\ valueOffset' = OffsetAfter(vo)
                     ELSE /\ bufferOffset' = off
                          /\ pc' = "upload"
                          /\ valueOffset' = vo
                          /\ UNCHANGED <<promises, partNumber, value>>
             ELSE /\ bufferOffset' = off
                  /\ pc' = AfterCopy(vo)
                  /\ value' = ValueAfter(vo)
                  /\ valueOffset' = OffsetAfter(vo)
                  /\ UNCHANGED <<promises, partNumber, emitted>>
    /\ UNCHANGED <<constVars, queueVars, uploadId, srcPos, parts, flushed, error, thrown,
                   stepVars, restarts, histVars>>

\* workflow and stream: if (bufferOffset > 0) after the read loop
Flush ==
    /\ pc = "flush"
    /\ flushed' = TRUE
    /\ IF HasResidual(bufferOffset)
       THEN /\ emitted' = Append(emitted, [pn |-> partNumber, len |-> bufferOffset])
            /\ IF variant = "workflow"
               THEN /\ promises' = Append(promises, [pn |-> partNumber, len |-> bufferOffset])
                    /\ pc' = "settle"
               ELSE /\ pc' = "uploadLast"
                    /\ promises' = promises
       ELSE /\ pc' = IF variant = "workflow" THEN "settle" ELSE "complete"
            /\ UNCHANGED <<promises, emitted>>
    /\ UNCHANGED <<constVars, queueVars, uploadId, buffer, bufferOffset, partNumber, value,
                   valueOffset, srcPos, parts, error, thrown, stepVars, restarts,
                   histVars>>

\* ------------------------------------------------------- part uploads
PutOutcomes == {"ok", "noetag", "notok", "throw"}

\* a part upload accepted on response.ok alone
PutSucceededNoETagCheck(out) == out \in {"ok", "noetag"}
\* the two tests after the PUT: response.ok, then the ETag header
PutSucceeded(out) == out = "ok"
\* response.headers.get('ETag')
ETagOf(out, etag) == IF out = "ok" THEN etag ELSE ""
\* the error the awaited uploadPart throws into the catch block
PartError(out) == IF out = "noetag" THEN "etag" ELSE "part"

\* the ETag header of a successful PUT: opaque and chosen by the destination,
\* so it is either a tag already returned or the next unused one
ReturnedETags == {results[k] : k \in PartNumbers} \ {""}
NewETags == IF "e1" \notin ReturnedETags THEN {"e1"} ELSE ReturnedETags \cup {"e2"}

\* stream: await uploadPart(data, partNumber)
UploadPart ==
    /\ pc \in {"upload", "uploadLast"}
    /\ LET data == IF pc = "upload" THEN buffer ELSE Subarray(buffer, 0, bufferOffset)
       IN putBodies' = [putBodies EXCEPT ![partNumber] = @ \cup {data}]
    /\ reqNoId' = NoIdSeen
    /\ \E out \in PutOutcomes, etag \in NewETags :
         IF PutSucceeded(out)
         THEN /\ parts' = Append(parts, PartResult(ETagOf(out, etag), partNumber))
              /\ results' = [results EXCEPT ![partNumber] = ETagOf(out, etag)]
              /\ error' = error
              /\ IF pc = "upload"
                 THEN /\ partNumber' = NextPart(partNumber)
                      /\ bufferOffset' = 0
                      /\ pc' = AfterCopy(valueOffset)
                      /\ value' = ValueAfter(valueOffset)
                      /\ valueOffset' = OffsetAfter(valueOffset)
                 ELSE /\ pc' = "complete"
                      /\ UNCHANGED <<partNumber, bufferOffset, value, valueOffset>>
         ELSE /\ error' = PartError(out)
              /\ pc' = "abort"
              /\ value' = <<>>
              /\ valueOffset' = 0
              /\ UNCHANGED <<parts, results, partNumber, bufferOffset>>
    /\ UNCHANGED <<constVars, queueVars, uploadId, buffer, srcPos, promises,
                   emitted, flushed, thrown, stepVars, restarts, initiated,
                   completeIssued, completeOk, completeBody, abortReqs, abortFailed,
                   settleOrder>>

\* blob: one iteration of for (partNumber = 1; partNumber <= totalChunks; ...)
BlobLoop ==
    /\ pc = "loop"
    /\ IF partNumber <= TotalChunks
       THEN LET start == (partNumber - 1) * chunkSize
                end == Min(start + chunkSize, size)
                chunk == BlobSlice(start, end)
            IN /\ putBodies' = [putBodies EXCEPT ![partNumber] = @ \cup {chunk}]
               /\ reqNoId' = NoIdSeen
               /\ \E out \in PutOutcomes, etag \in NewETags :
                    IF PutSucceeded(out)
                    THEN /\ parts' = Append(parts, PartResult(ETagOf(out, etag), partNumber))
                         /\ results' = [results EXCEPT ![partNumber] = ETagOf(out, etag)]
                         /\ partNumber' = NextPart(partNumber)
                         /\ pc' = "loop"
                         /\ error' = error
                    ELSE /\ error' = PartError(out)
                         /\ pc' = "abort"
                         /\ UNCHANGED <<parts, results, partNumber>>
       ELSE /\ pc' = "complete"
            /\ UNCHANGED <<putBodies, reqNoId, parts, results, partNumber, error>>
    /\ UNCHANGED <<constVars, queueVars, uploadId, buffer, bufferOffset, value, valueOffset,
                   srcPos, promises, emitted, flushed, thrown, stepVars, restarts,
                   initiated, completeIssued, completeOk, completeBody, abortReqs,
                   abortFailed, settleOrder>>

\* workflow: the orchestrator is suspended at an await, so callbacks may run
Awaiting == pc \in {"read", "settle", "abort"}

\* workflow: one execution of the unit of step 'Upload file parts <pn>'
RunUploadStep(i) ==
    /\ variant = "workflow"
    /\ Awaiting
    /\ i \in 1..Len(promises)
    /\ LET pn == promises[i].pn
           name == StepName(pn)
           body == Subarray(buffer, 0, promises[i].len)
       IN /\ stepStatus[name] = "none"
          /\ putBodies' = [putBodies EXCEPT ![pn] = @ \cup {body}]
          /\ reqNoId' = NoIdSeen
          /\ \E out \in PutOutcomes, etag \in NewETags :
               IF PutSucceeded(out)
               THEN /\ StepDone(name, PartResult(ETagOf(out, etag), pn))
                    /\ results' = [results EXCEPT ![pn] = ETagOf(out, etag)]
                    /\ settleOrder' = Append(settleOrder, pn)
               ELSE /\ StepFailed(name)
                    /\ results' = results
                    /\ settleOrder' = IF Exhausted(name) THEN Append(settleOrder, pn)
                                      ELSE settleOrder
    /\ UNCHANGED <<constVars, queueVars, pc, uploadId, memVars, error, thrown, restarts, initiated,
                   completeIssued, completeOk, completeBody, abortReqs, abortFailed>>

\* the parts collected as each step settles instead of from the array
SettledPartsAsSettled ==
    [i \in 1..Len(settleOrder) |-> stepValue[StepName(settleOrder[i])]]
\* workflow: the parts mapped from Promise.allSettled(promises), in array order
SettledParts ==
    [i \in 1..Len(promises) |-> stepValue[StepName(promises[i].pn)]]

\* rejected results passed over instead of thrown
AnyRejectedIgnored == FALSE
\* the map callback throws on the first result that is not fulfilled
AnyRejected ==
    \E i \in 1..Len(promises) : stepStatus[StepName(promises[i].pn)] = "failed"

\* workflow: const parts = (await Promise.allSettled(promises)).map(...)
Settle ==
    /\ pc = "settle"
    /\ \A i \in 1..Len(promises) : stepStatus[StepName(promises[i].pn)] # "none"
    /\ IF AnyRejected
       THEN /\ error' = "part"
            /\ pc' = "abort"
            /\ parts' = parts
       ELSE /\ parts' = SettledParts
            /\ pc' = "complete"
            /\ error' = error
    /\ UNCHANGED <<constVars, queueVars, uploadId, buffer, bufferOffset, partNumber, value,
                   valueOffset, srcPos, promises, emitted, flushed, thrown, stepVars,
                   restarts, histVars>>

\* ----------------------------------------------------------- complete
CompleteOutcomes == {"ok", "notok", "throw"}

\* workflow: step.do('Complete upload')
CompleteStep ==
    /\ pc = "complete"
    /\ variant = "workflow"
    /\ CASE stepStatus[CompleteName] = "done" ->
              /\ pc' = "done"
              /\ UNCHANGED <<stepVars, error, completeIssued, completeOk, completeBody,
                             reqNoId>>
         [] stepStatus[CompleteName] = "failed" ->
              \* re-entered after the step used up its retries: it fails again
              /\ pc' = "abort"
              /\ error' = "complete"
              /\ UNCHANGED <<stepVars, completeIssued, completeOk, completeBody,
                             reqNoId>>
         [] OTHER ->
              /\ completeIssued' = TRUE
              /\ completeBody' = CompleteXml(parts)
              /\ reqNoId' = NoIdSeen
              /\ \E out \in CompleteOutcomes :
                   IF out = "ok"
                   THEN /\ StepDone(CompleteName, "")
                        /\ completeOk' = TRUE
                        /\ pc' = "done"
                        /\ error' = error
                   ELSE /\ StepFailed(CompleteName)
                        /\ completeOk' = completeOk
                        /\ pc' = IF Exhausted(CompleteName) THEN "abort" ELSE "complete"
                        /\ error' = IF Exhausted(CompleteName) THEN "complete" ELSE error
    /\ UNCHANGED <<constVars, queueVars, uploadId, memVars, thrown, restarts, initiated, abortReqs,
                   abortFailed, putBodies, results, settleOrder>>

\* the index in the batch of the one message queue() handles: batch.messages[0]
Message == 1

\* stream and blob: the CompleteMultipartUpload request, and on its success
\* the return to queue()
Complete ==
    /\ pc = "complete"
    /\ variant # "workflow"
    /\ completeIssued' = TRUE
    /\ completeBody' = CompleteXml(parts)
    /\ reqNoId' = NoIdSeen
    /\ \E out \in CompleteOutcomes :
         IF out = "ok"
         THEN /\ completeOk' = TRUE
              /\ pc' = "done"
              /\ error' = error
              \* uploadLargeFile returns to queue(): message.ack()
              /\ acked' = acked \cup {Message}
              /\ delivered' = delivered \ {Message}
         ELSE /\ completeOk' = completeOk
              /\ pc' = "abort"
              /\ error' = "complete"
              /\ UNCHANGED queueVars
    /\ UNCHANGED <<constVars, uploadId, memVars, thrown, stepVars, restarts, initiated,
                   abortReqs, abortFailed, putBodies, results, settleOrder>>

\* -------------------------------------------------------------- abort
AbortOutcomes == {"ok", "notok", "throw"}

\* workflow: catch (error) { await step.do('Abort upload'); throw error }
AbortStep ==
    /\ pc = "abort"
    /\ variant = "workflow"
    /\ IF stepStatus[AbortName] = "done"
       THEN /\ thrown' = error
            /\ pc' = "failed"
            /\ UNCHANGED <<stepVars, abortReqs, abortFailed, reqNoId>>
       ELSE /\ abortReqs' = abortReqs + 1
            /\ reqNoId' = NoIdSeen
            /\ \E out \in AbortOutcomes :
                 IF out # "throw"
                 THEN /\ StepDone(AbortName, "")
                      /\ thrown' = error
                      /\ pc' = "failed"
                      /\ abortFailed' = abortFailed
                 ELSE /\ StepFailed(AbortName)
                      /\ abortFailed' = (abortFailed \/ Exhausted(AbortName))
                      /\ thrown' = IF Exhausted(AbortName) THEN "abort" ELSE thrown
                      /\ pc' = IF Exhausted(AbortName) THEN "failed" ELSE "abort"
    /\ UNCHANGED <<constVars, queueVars, uploadId, memVars, error, restarts, initiated,
                   completeIssued, completeOk, completeBody, putBodies, results,
                   settleOrder>>

\* stream and blob: catch (error) { await fetch(DELETE).catch(log); throw error }
Abort ==
    /\ pc = "abort"
    /\ variant # "workflow"
    /\ abortReqs' = abortReqs + 1
    /\ reqNoId' = NoIdSeen
    /\ \E out \in AbortOutcomes : abortFailed' = (out = "throw")
    /\ thrown' = error
    /\ pc' = "failed"
    /\ UNCHANGED <<constVars, queueVars, uploadId, memVars, error, stepVars, restarts, initiated,
                   completeIssued, completeOk, completeBody, putBodies, results,
                   settleOrder>>

\* -------------------------------------------------------------- queue
\* stream and blob: queue() has returned or thrown and the queue settles what
\* the handler left of the batch: a message neither acknowledged nor retried
\* by the handler is acknowledged when the handler returned and delivered
\* again when it threw
BatchSettle ==
    /\ variant # "workflow"
    /\ pc \in {"done", "failed"}
    /\ delivered # {}
    /\ delivered' = {}
    /\ acked' = IF pc = "done" THEN acked \cup delivered ELSE acked
    /\ UNCHANGED <<constVars, pc, uploadId, memVars, error, thrown, stepVars,
                   restarts, histVars>>

\* ------------------------------------------------------------ restart
\* workflow: the execution is suspended and run() is entered again; what
\* run() holds in memory is lost, the step records are kept
Restart ==
    /\ variant = "workflow"
    /\ pc \notin {"download", "done", "failed"}
    /\ restarts < MaxRestarts
    /\ restarts' = restarts + 1
    /\ pc' = "download"
    /\ uploadId' = "none"
    /\ buffer' = NewBuffer
    /\ bufferOffset' = 0
    /\ partNumber' = 1
    /\ value' = <<>>
    /\ valueOffset' = 0
    /\ srcPos' = 0
    /\ promises' = <<>>
    /\ parts' = <<>>
    /\ emitted' = <<>>
    /\ flushed' = FALSE
    /\ error' = "none"
    /\ UNCHANGED <<constVars, queueVars, thrown, stepVars, histVars>>

Next ==
    \/ Download
    \/ InitStep
    \/ Initiate
    \/ Read
    \/ CopyStep
    \/ Flush
    \/ UploadPart
    \/ BlobLoop
    \/ \E i \in PartNumbers : RunUploadStep(i)
    \/ Settle
    \/ CompleteStep
    \/ Complete
    \/ AbortStep
    \/ Abort
    \/ BatchSettle
    \/ Restart

Spec == Init /\ [][Next]_vars

\* every await of the running transfer eventually resolves: requests answer
\* or time out, and the engine runs a step or retry that is due
FairSpec == Spec /\ WF_vars(Next)

\* =============================================================== claims
Terminal == pc \in {"done", "failed"}

\* the part size of the running variant
PartSize == IF variant = "blob" THEN chunkSize ELSE bufferSize

\* the source bytes part k stands for
ExpectedBody(k) == SourceRange((k - 1) * PartSize, Min(k * PartSize, size))

ListedNumbers == {completeBody[i][1] : i \in 1..Len(completeBody)}

\* C1: once initiate has succeeded, a transfer that has returned or thrown
\* has closed the session by exactly one of a successful complete or an
\* abort request: never neither, never both.
C1_ExactlyOneClose ==
    (Terminal /\ initiated) =>
        \/ completeOk /\ abortReqs = 0
        \/ ~completeOk /\ abortReqs > 0

\* C2: when the abort operation itself failed, the error raised to the
\* caller is still the failure that triggered the abort.
C2_AbortFailureKeepsRootCause ==
    (pc = "failed" /\ abortFailed) => thrown = error

\* a part upload failed permanently and reached the orchestrator: the awaited
\* uploadPart threw (sequential), or allSettled reported a step that exhausted
\* its retries (workflow)
PartFailedPermanently == error \in {"part", "etag"}

\* abort operations invoked: the DELETE call (sequential), the
\* 'Abort upload' step (workflow)
AbortInvocations ==
    IF variant = "workflow"
    THEN (IF stepAttempts[AbortName] > 0 THEN 1 ELSE 0)
    ELSE abortReqs

\* C3: if a part upload fails permanently after initiate succeeded, abort
\* is invoked exactly once and the transfer ends with the part failure.
C3_PartFailureAbortsOnce ==
    (Terminal /\ initiated /\ PartFailedPermanently) =>
        /\ AbortInvocations = 1
        /\ thrown = error

\* C4: every body sent for a part listed at completion, on every attempt,
\* equals the source bytes of that part's range.
C4_PartsVerbatim ==
    completeIssued =>
        \A k \in ListedNumbers : \A b \in putBodies[k] : b = ExpectedBody(k)

\* C5: in the workflow variant the part list of the complete body is
\* strictly ascending by part number, whatever the settle order was.
C5_CompleteListAscending ==
    (variant = "workflow" /\ completeIssued) =>
        \A i, j \in 1..Len(completeBody) :
            i < j => completeBody[i][1] < completeBody[j][1]

C5_Witness ==
    /\ variant = "workflow"
    /\ completeIssued
    /\ Len(completeBody) >= 2
    /\ \E i, j \in 1..Len(settleOrder) : i < j /\ settleOrder[i] > settleOrder[j]

\* C6: a complete request lists exactly the parts that have a successful
\* Part Result, each once, with the entity tag its upload returned.
C6_CompleteListsSuccessfulParts ==
    completeIssued =>
        /\ ListedNumbers = {k \in PartNumbers : results[k] # ""}
        /\ \A i, j \in 1..Len(completeBody) :
               i # j => completeBody[i][1] # completeBody[j][1]
        /\ \A i \in 1..Len(completeBody) :
               completeBody[i][2] = results[completeBody[i][1]]

C6_Witness ==
    /\ variant = "workflow"
    /\ completeIssued
    /\ Len(completeBody) >= 2
    /\ completeBody[1][2] # completeBody[2][2]
    /\ \E k \in PartNumbers : stepAttempts[StepName(k)] > 1

\* C7: after run() is re-entered, a step whose result is recorded is not
\* executed again and keeps its record, and the recorded result a part's
\* step returns is the result of that same part.
C7_IdempotentReplay ==
    [][ /\ \A n \in StepNames :
              stepStatus[n] = "done" =>
                  /\ stepStatus'[n] = "done"
                  /\ stepAttempts'[n] = stepAttempts[n]
                  /\ stepValue'[n] = stepValue[n]
        /\ \A i \in 1..Len(promises') :
              stepStatus'[StepName(promises'[i].pn)] = "done" =>
                  stepValue'[StepName(promises'[i].pn)].PartNumber = promises'[i].pn
      ]_vars

\* run() was re-entered and, within the first read's copy loop, dispatched a
\* part whose step was already recorded
C7_Witness ==
    /\ restarts >= 1
    /\ pc = "copy"
    /\ Len(value) = srcPos
    /\ Len(promises) >= 1
    /\ stepStatus[StepName(promises[1].pn)] = "done"
    /\ stepStatus[InitName] = "done"

\* C8: an initiate response without an upload identifier fails initiate, and
\* no part, complete or abort request is issued without an identifier.
C8_NoRequestWithoutUploadId ==
    /\ uploadId # "undefined"
    /\ ~reqNoId

\* C9: the blob variant uploads part k as the slice [(k-1)P, min(kP, S)),
\* never an empty one, and completes with parts 1..N, N = ceil(S/P).
C9_SlicePlan ==
    variant = "blob" =>
        /\ \A k \in PartNumbers : \A b \in putBodies[k] :
               /\ (k - 1) * chunkSize < size
               /\ b = [i \in 1..(Min(k * chunkSize, size) - (k - 1) * chunkSize) |->
                          (k - 1) * chunkSize + i]
        /\ completeIssued =>
               LET N == Len(completeBody)
               IN /\ N * chunkSize >= size
                  /\ N > 0 => (N - 1) * chunkSize < size
                  /\ \A i \in 1..N : completeBody[i][1] = i /\ putBodies[i] # {}

C9_Witness ==
    /\ variant = "blob"
    /\ completeIssued
    /\ Len(completeBody) = 2
    /\ size % chunkSize # 0

\* C10: however the stream is chunked, the planner numbers its parts 1..N,
\* every part but the last has length B, and once the stream has ended
\* N = ceil(S/B) and the last part has length S - (N-1)B > 0.
C10_BufferFillPlan ==
    variant \in {"workflow", "stream"} =>
        /\ \A i \in 1..Len(emitted) :
               /\ emitted[i].pn = i
               /\ (i < Len(emitted) \/ ~flushed) => emitted[i].len = bufferSize
        /\ flushed =>
               LET N == Len(emitted)
               IN /\ N * bufferSize >= size
                  /\ N > 0 => /\ (N - 1) * bufferSize < size
                              /\ emitted[N].len = size - (N - 1) * bufferSize

C10_Witness ==
    /\ flushed
    /\ Len(emitted) >= 2
    /\ emitted[Len(emitted)].len < bufferSize

\* initiate has returned a success to the transfer
InitSucceeded ==
    IF variant = "workflow" THEN stepStatus[InitName] = "done" ELSE uploadId = "id"

\* C11: as long as initiate has not succeeded no part, complete or abort
\* request is issued, and a transfer that ended without a successful
\* initiate raised the download or the initiate failure to its caller.
C11_NoCleanupBeforeInitiate ==
    ~InitSucceeded =>
        /\ abortReqs = 0
        /\ ~completeIssued
        /\ \A k \in PartNumbers : putBodies[k] = {}
        /\ pc = "failed" => thrown \in {"download", "init"}

C11_Witness ==
    /\ pc = "failed"
    /\ thrown = "init"
    /\ ~InitSucceeded
    /\ stepAttempts[InitName] = (IF variant = "workflow" THEN maxAttempts ELSE 0)

\* C12: in the two sequential variants a part is requested once, only when
\* every lower part has returned a success with an entity tag and no higher
\* part has been requested, and no part is requested after a part failed.
C12_SequentialOrder ==
    /\ [](variant # "workflow" =>
            \A k \in PartNumbers :
                putBodies[k] # {} =>
                    /\ Cardinality(putBodies[k]) = 1
                    /\ k <= partNumber
                    /\ \A j \in 1..(k - 1) : results[j] # "")
    /\ [][variant # "workflow" =>
            \A k \in PartNumbers :
                putBodies'[k] # putBodies[k] =>
                    /\ error = "none"
                    /\ abortReqs = 0
                    /\ \A j \in PartNumbers : j >= k => putBodies[j] = {}]_vars

\* part 1 succeeded, part 2 failed and the session was aborted while more
\* parts were planned
C12_Witness ==
    /\ variant = "blob"
    /\ pc = "failed"
    /\ TotalChunks > 2
    /\ partNumber = 2
    /\ results[1] # ""
    /\ putBodies[2] # {}
    /\ abortReqs = 1
    /\ \A k \in PartNumbers : k > 2 => putBodies[k] = {}

\* workflow: the part uploads dispatched by this run of run()
Dispatched == {promises[i].pn : i \in 1..Len(promises)}
Unsettled == {k \in Dispatched : stepStatus[StepName(k)] = "none"}
\* an execution of the unit of part k's step sends one PUT
PutIssued(k) == stepAttempts'[StepName(k)] > stepAttempts[StepName(k)]
AbortIssued == abortReqs' > abortReqs

\* C13: in the workflow variant, once a dispatched part upload has failed
\* permanently the transfer cannot succeed, a part's step settles only by
\* its own execution (no other part is cancelled), and an abort request is
\* issued only when every dispatched part upload has settled.
C13_AbortAfterAllSettled ==
    /\ [](variant = "workflow" =>
            ((\E k \in Dispatched : stepStatus[StepName(k)] = "failed")
                => pc # "done"))
    /\ [][variant = "workflow" =>
            /\ \A k \in PartNumbers :
                   (stepStatus[StepName(k)] = "none"
                        /\ stepStatus'[StepName(k)] # "none") => PutIssued(k)
            /\ ((\E k \in Dispatched : stepStatus[StepName(k)] = "failed")
                    /\ AbortIssued) => Unsettled = {}]_vars

\* C19: in the workflow variant, after a read of the source stream failed
\* the abort request is issued only when no dispatched part upload is
\* unsettled, and no part-upload request follows an abort request.
C19_ReadFailureAbortOrder ==
    [][(variant = "workflow" /\ error = "read") =>
           /\ AbortIssued => Unsettled = {}
           /\ abortReqs > 0 => \A k \in PartNumbers : ~PutIssued(k)]_vars

C15_MissingETagIsFailure ==
    /\ \A i \in 1..Len(parts) : parts[i].ETag # ""
    /\ \A i \in 1..Len(completeBody) : completeBody[i][2] # ""
    /\ \A k \in PartNumbers :
           stepStatus[StepName(k)] = "done" =>
               stepValue[StepName(k)] = PartResult(results[k], k) /\ results[k] # ""
    /\ error = "etag" =>
           /\ results[partNumber] = ""
           /\ \A i \in 1..Len(parts) : parts[i].PartNumber # partNumber
           /\ ~completeIssued
    /\ variant = "workflow" =>
           \A k \in PartNumbers :
               /\ putBodies[k] # {} <=> stepAttempts[StepName(k)] >= 1
               /\ stepAttempts[StepName(k)] <= maxAttempts
               /\ results[k] = "" =>
                      (stepStatus[StepName(k)] = "failed"
                           <=> stepAttempts[StepName(k)] = maxAttempts)

\* part 2 answered success without an ETag after part 1 was accepted
C15_Witness ==
    /\ variant # "workflow"
    /\ pc = "failed"
    /\ error = "etag"
    /\ partNumber = 2
    /\ Len(parts) = 1
    /\ putBodies[2] # {}

\* the part numbers of the plan: part k starts before the end of the source
Planned == {k \in PartNumbers : (k - 1) * PartSize < size}

\* C16: a part is requested only after initiate succeeded; the complete
\* request is reached only when the source is consumed and is issued only
\* when every planned part has a successful result; once a complete request
\* has been issued no part is requested.
C16_ProtocolOrdering ==
    /\ [](/\ (\E k \in PartNumbers : putBodies[k] # {}) => InitSucceeded
          /\ pc = "complete" =>
                 IF variant = "blob" THEN partNumber = Cardinality(Planned) + 1
                                     ELSE srcPos = size /\ flushed
          /\ (pc = "complete" \/ completeIssued) =>
                 \A k \in Planned : results[k] # "")
    /\ [][completeIssued =>
            /\ putBodies' = putBodies
            /\ \A k \in PartNumbers : ~PutIssued(k)]_vars

C16_Witness ==
    /\ completeIssued
    /\ Cardinality(Planned) >= 2
    /\ Len(completeBody) = Cardinality(Planned)
    /\ restarts >= 1
    /\ stepAttempts[CompleteName] >= 2

\* C17: in the buffer-fill variants 0 <= bufferOffset <= bufferSize; at
\* reader.read() and at the start of an inner-loop iteration the buffer is
\* not full and, in the iteration, bytes of the chunk remain, so an
\* iteration copies at least one byte; valueOffset grows strictly while the
\* inner loop runs on one chunk, so the loop ends.
C17_BufferFillProgress ==
    /\ [](variant \in {"workflow", "stream"} =>
            /\ 0 <= bufferOffset /\ bufferOffset <= bufferSize
            /\ pc \in {"read", "copy"} => bufferOffset < bufferSize
            /\ pc = "copy" => valueOffset < Len(value)
            /\ valueOffset <= Len(value))
    /\ [][(pc = "copy" /\ pc' \in {"copy", "upload"}) =>
            /\ value' = value
            /\ valueOffset' > valueOffset]_vars

\* a chunk larger than the space left: the buffer was flushed in the middle
\* of the chunk and the inner loop goes on with the rest
C17_Witness ==
    /\ pc = "copy"
    /\ valueOffset > 0
    /\ bufferOffset = 0
    /\ Len(emitted) >= 1
    /\ Len(value) > bufferSize

\* C18: in the workflow variant no step executes its unit more often than
\* its retry policy allows, a step that used up its executions without a
\* success is failed and its failure is what the orchestrator holds, and
\* every execution eventually returns or throws.
C18_BoundedRetryTerminates ==
    /\ [](variant = "workflow" =>
            /\ \A n \in StepNames :
                   /\ stepAttempts[n] <= maxAttempts
                   /\ stepStatus[n] = "failed" => stepAttempts[n] = maxAttempts
                   /\ (stepAttempts[n] = maxAttempts /\ stepStatus[n] # "done")
                          => stepStatus[n] = "failed"
            /\ (\E k \in Dispatched : stepStatus[StepName(k)] = "failed")
                   => pc \notin {"complete", "done"})
    /\ [][variant = "workflow" =>
            /\ (stepStatus[InitName] # "failed" /\ stepStatus'[InitName] = "failed")
                   => pc' = "failed" /\ thrown' = "init"
            /\ (stepStatus[CompleteName] # "failed"
                    /\ stepStatus'[CompleteName] = "failed")
                   => pc' = "abort" /\ error' = "complete"
            /\ (stepStatus[AbortName] # "failed" /\ stepStatus'[AbortName] = "failed")
                   => pc' = "failed" /\ thrown' = "abort"]_vars
    /\ (variant = "workflow" => <>Terminal)

\* a part step used up its executions and the transfer ended failed after
\* the abort step was retried
C18_Witness ==
    /\ variant = "workflow"
    /\ pc = "failed"
    /\ \E k \in Dispatched : /\ stepStatus[StepName(k)] = "failed"
                              /\ stepAttempts[StepName(k)] = maxAttempts
    /\ stepAttempts[AbortName] = maxAttempts
    /\ stepStatus[AbortName] = "done"

\* queue(): the key of a message has been transferred
Transferred(m) == m = Message /\ completeOk

====
